---- MODULE Spec2Model ----
(***************************************************************************)
(* Model of cdk_polly_website: the CDK stack that declares the resources   *)
(* of the text-to-speech workflow, and the asynchronous job workflow that  *)
(* the declared resources run (Submission API -> Job Store -> Event Bus -> *)
(* Synthesis Worker).  The stack, the event-source wiring and the function *)
(* timeouts are taken from lib/cdk_polly_website-stack.ts.  The handlers of*)
(* the three functions live in the 'lambda' asset directory; their steps   *)
(* and the columns of the table follow the description the stack gives of  *)
(* them, and the written specification where the stack is silent.          *)
(***************************************************************************)
EXTENDS Integers, Naturals, FiniteSets, Sequences, TLC

VARIABLES ctorPc, resources, template,
          jobs, bus, artifacts,
          sub, wpc, wjob,
          faults, convOutcome, killed

vars == << ctorPc, resources, template, jobs, bus, artifacts, sub, wpc, wjob,
           faults, convOutcome, killed >>

stackVars == << ctorPc, resources, template >>
histVars == << convOutcome, killed >>

\* ------------------------------------------------------------------ bounds
MaxJobs == 2
MaxFaults == 1

JobIds == 1..MaxJobs
Workers == {"w1", "w2"}
Texts == {"", "hello"}
KnownVoices == {"en-US-1"}
Voices == KnownVoices \cup {"bogus"}

\* The url column: empty until the audio file exists, then a link to it.
NoUrl == << >>
Url(j) == << j >>

\* ------------------------------------------------------- the CDK stack
\* The constructs the constructor of CdkPollyWebsiteStack declares, in order.
StackConstructs ==
  << "posts", "audioposts-931", "deployStaticWebsite", "new_posts",
     "LambdaPostsReaderRole", "MyServerlessAppPolicy", "PostReader_NewPost",
     "PostReader_ConvertToAudio", "SnsEventSource", "PostReader_GetPost",
     "PostReaderAPI", "GET", "POST" >>

\* One statement of the constructor: declare the next construct.
AddConstruct ==
  /\ ctorPc <= Len(StackConstructs)
  /\ resources' = resources \cup {StackConstructs[ctorPc]}
  /\ ctorPc' = ctorPc + 1
  /\ UNCHANGED << template, jobs, bus, artifacts, sub, wpc, wjob, faults >>
  /\ UNCHANGED histVars

\* Synthesis of the constructed stack into its template.
Synth ==
  /\ ctorPc = Len(StackConstructs) + 1
  /\ template.synthesized = FALSE
  /\ template' = [synthesized |-> TRUE, Resources |-> resources]
  /\ UNCHANGED << ctorPc, resources, jobs, bus, artifacts, sub, wpc, wjob, faults >>
  /\ UNCHANGED histVars

Deployed(r) == template.synthesized /\ r \in template.Resources

\* ------------------------------------------------------- Job Store
Exists(j) == j \in DOMAIN jobs

\* The status column: PROCESSING until the MP3 file exists, UPDATED afterwards.
Status(j) == jobs[j].status

\* Variant: the record is written without the submitted voice.
NewJobNoVoice(t, v) ==
  [status |-> "PROCESSING", text |-> t, voice |-> "", url |-> << >>]

\* The record the New Post function creates: id is the key, the columns are
\* status, text, url and voice.
NewJob(t, v) ==
  [status |-> "PROCESSING", text |-> t, voice |-> v, url |-> NoUrl]

\* Variant: the write is lost; the table keeps what it had.
PutDropped(j, rec) == jobs

Put(j, rec) == [k \in DOMAIN jobs \cup {j} |-> IF k = j THEN rec ELSE jobs[k]]

\* Variant: the id is not generated afresh; every submission gets the same one.
NewIdNotFresh == CHOOSE j \in 1..MaxJobs : TRUE

\* The id the New Post function creates for the record: a new one each time.
NewId == Cardinality(DOMAIN jobs) + 1

\* Query API: the current record, or NotFound.
GetPost(j) ==
  IF Exists(j) THEN [found |-> TRUE, job |-> jobs[j]]
               ELSE [found |-> FALSE, error |-> "NotFound"]

\* ------------------------------------------------------- Submission API
IdleSub == [pc |-> "idle", text |-> "", voice |-> "", id |-> 0,
            writes |-> 0, publishes |-> 0, result |-> "none"]

Valid(t, v) == t # "" /\ v \in KnownVoices

\* 1. Retrieves the two input parameters (voice and text).
Request(t, v) ==
  /\ Deployed("POST") /\ Deployed("PostReader_NewPost")
  /\ sub.pc \in {"idle", "returned", "failed"}
  /\ NewId <= MaxJobs
  /\ sub' = [IdleSub EXCEPT !.pc = "received", !.text = t, !.voice = v]
  /\ UNCHANGED << jobs, bus, artifacts, wpc, wjob, faults >>
  /\ UNCHANGED stackVars /\ UNCHANGED histVars

Validate ==
  /\ sub.pc = "received"
  /\ IF Valid(sub.text, sub.voice)
       THEN sub' = [sub EXCEPT !.pc = "validated"]
       ELSE sub' = [sub EXCEPT !.pc = "failed", !.result = "ValidationError"]
  /\ UNCHANGED << jobs, bus, artifacts, wpc, wjob, faults >>
  /\ UNCHANGED stackVars /\ UNCHANGED histVars

\* 2. Creates a new record in the table.
WriteJob ==
  /\ sub.pc = "validated"
  /\ Deployed("posts")
  /\ jobs' = Put(NewId, NewJob(sub.text, sub.voice))
  /\ sub' = [sub EXCEPT !.pc = "written", !.id = NewId, !.writes = @ + 1]
  /\ UNCHANGED << bus, artifacts, wpc, wjob, faults >>
  /\ UNCHANGED stackVars /\ UNCHANGED histVars

\* Persistence fails: StoreUnavailable, and nothing is published.
WriteJobFails ==
  /\ sub.pc = "validated"
  /\ faults < MaxFaults
  /\ faults' = faults + 1
  /\ sub' = [sub EXCEPT !.pc = "failed", !.result = "StoreUnavailable"]
  /\ UNCHANGED << jobs, bus, artifacts, wpc, wjob >>
  /\ UNCHANGED stackVars /\ UNCHANGED histVars

\* 3. Publishes the id of the new record to the topic.
Publish ==
  /\ sub.pc = "written"
  /\ Deployed("new_posts")
  /\ bus' = bus \cup {sub.id}
  /\ sub' = [sub EXCEPT !.pc = "published", !.publishes = @ + 1]
  /\ UNCHANGED << jobs, artifacts, wpc, wjob, faults >>
  /\ UNCHANGED stackVars /\ UNCHANGED histVars

PublishFails ==
  /\ sub.pc = "written"
  /\ faults < MaxFaults
  /\ faults' = faults + 1
  /\ sub' = [sub EXCEPT !.pc = "failed", !.result = "BusUnavailable"]
  /\ UNCHANGED << jobs, bus, artifacts, wpc, wjob >>
  /\ UNCHANGED stackVars /\ UNCHANGED histVars

\* 4. Returns the id of the record to the user.
Return ==
  /\ sub.pc = "published"
  /\ sub' = [sub EXCEPT !.pc = "returned", !.result = "ok"]
  /\ UNCHANGED << jobs, bus, artifacts, wpc, wjob, faults >>
  /\ UNCHANGED stackVars /\ UNCHANGED histVars

\* The function's 300 s limit elapses: the invocation of New Post is
\* terminated where it stands; what it wrote or published stays.
SubTimeout ==
  /\ sub.pc \in {"received", "validated", "written", "published"}
  /\ sub' = [sub EXCEPT !.pc = "failed", !.result = "Timeout"]
  /\ UNCHANGED << jobs, bus, artifacts, wpc, wjob, faults >>
  /\ UNCHANGED stackVars /\ UNCHANGED histVars

\* ------------------------------------------------------- Event Bus
\* The topic pushes an event it still holds to a worker that is free.
Deliver(w, j) ==
  /\ Deployed("SnsEventSource") /\ Deployed("PostReader_ConvertToAudio")
  /\ wpc[w] = "idle"
  /\ j \in bus
  /\ wpc' = [wpc EXCEPT ![w] = "received"]
  /\ wjob' = [wjob EXCEPT ![w] = j]
  /\ UNCHANGED << jobs, bus, artifacts, sub, faults >>
  /\ UNCHANGED stackVars /\ UNCHANGED histVars

\* The handler returned: the delivery layer stops redelivering the event.
Ack(w) ==
  /\ wpc[w] = "exited"
  /\ bus' = bus \ {wjob[w]}
  /\ wpc' = [wpc EXCEPT ![w] = "idle"]
  /\ wjob' = [wjob EXCEPT ![w] = 0]
  /\ UNCHANGED << jobs, artifacts, sub, faults >>
  /\ UNCHANGED stackVars /\ UNCHANGED histVars

\* ------------------------------------------------------- Synthesis Worker
\* The positions of a running invocation of Convert To Audio.
Running == {"received", "loaded", "converted", "stored"}

\* The positions at which the worker has the item and works on it.
Working == {"loaded", "converted", "stored"}

Holds(w, j) == wjob[w] = j /\ wpc[w] \in Working

\* The invocation of worker w ends without returning; a job the worker was
\* working on is left as it is.  The stack sets no retry attempts, no failure
\* destination and no dead-letter queue on the function or its subscription,
\* so what becomes of the event is the delivery layer's choice: it is kept for
\* another attempt (retry) or discarded.
Killed(w, retry) ==
  /\ bus' = IF retry THEN bus ELSE bus \ {wjob[w]}
  /\ wpc' = [wpc EXCEPT ![w] = "idle"]
  /\ wjob' = [wjob EXCEPT ![w] = 0]
  /\ killed' = IF wpc[w] \in Working
                 THEN [killed EXCEPT ![wjob[w]] = TRUE]
                 ELSE killed

\* 1, 2. Takes the id from the event and retrieves the item from the table.
LoadJob(w) ==
  /\ wpc[w] = "received"
  /\ wpc' = [wpc EXCEPT ![w] = "loaded"]
  /\ UNCHANGED << jobs, bus, artifacts, sub, wjob, faults >>
  /\ UNCHANGED stackVars /\ UNCHANGED histVars

\* The store is unreachable: the error propagates to the delivery layer.
LoadFails(w) ==
  /\ wpc[w] = "received"
  /\ faults < MaxFaults
  /\ faults' = faults + 1
  /\ \E retry \in BOOLEAN : Killed(w, retry)
  /\ UNCHANGED << jobs, artifacts, sub, convOutcome >>
  /\ UNCHANGED stackVars

\* 3. Converts the text into an audio stream.  The conversion returns audio,
\* or throws: nothing catches it, and the invocation ends with the error.
Convert(w, outcome) ==
  /\ wpc[w] = "loaded"
  /\ convOutcome' = [convOutcome EXCEPT ![wjob[w]] = outcome]
  /\ IF outcome = "ok"
       THEN /\ wpc' = [wpc EXCEPT ![w] = "converted"]
            /\ UNCHANGED << bus, wjob, killed >>
       ELSE \E retry \in BOOLEAN : Killed(w, retry)
  /\ UNCHANGED << jobs, artifacts, sub, faults >>
  /\ UNCHANGED stackVars

\* The function's 300 s limit elapses: the invocation is terminated where it
\* stands, whatever it was doing.
Timeout(w) ==
  /\ wpc[w] \in Running
  /\ \E retry \in BOOLEAN : Killed(w, retry)
  /\ convOutcome' = IF wpc[w] = "loaded"
                      THEN [convOutcome EXCEPT ![wjob[w]] = "timeout"]
                      ELSE convOutcome
  /\ UNCHANGED << jobs, artifacts, sub, faults >>
  /\ UNCHANGED stackVars

\* Variant: the step that places the file also writes the link to the item.
AfterStoreSetsUrl(j) == [jobs EXCEPT ![j].url = << j >>]

\* What placing the file in the bucket writes to the item: nothing.
AfterStore(j) == jobs

\* 4. Places the audio file into the bucket.
StoreArtifact(w) ==
  /\ wpc[w] = "converted"
  /\ Deployed("audioposts-931")
  /\ artifacts' = artifacts \cup {wjob[w]}
  /\ jobs' = AfterStore(wjob[w])
  /\ wpc' = [wpc EXCEPT ![w] = "stored"]
  /\ UNCHANGED << bus, sub, wjob, faults >>
  /\ UNCHANGED stackVars /\ UNCHANGED histVars

\* 5. Updates the item with the reference to the bucket and the new status.
Finalize(w) ==
  /\ wpc[w] = "stored"
  /\ jobs' = [jobs EXCEPT ![wjob[w]].status = "UPDATED",
                          ![wjob[w]].url = Url(wjob[w])]
  /\ wpc' = [wpc EXCEPT ![w] = "exited"]
  /\ UNCHANGED << bus, artifacts, sub, wjob, faults >>
  /\ UNCHANGED stackVars /\ UNCHANGED histVars

\* The worker process dies between two steps.
Crash(w) ==
  /\ wpc[w] \in Running
  /\ faults < MaxFaults
  /\ faults' = faults + 1
  /\ \E retry \in BOOLEAN : Killed(w, retry)
  /\ UNCHANGED << jobs, artifacts, sub, convOutcome >>
  /\ UNCHANGED stackVars

\* ------------------------------------------------------- specification
Init ==
  /\ ctorPc = 1
  /\ resources = {}
  /\ template = [synthesized |-> FALSE, Resources |-> {}]
  /\ jobs = [j \in {} |-> NewJob("", "")]
  /\ bus = {}
  /\ artifacts = {}
  /\ sub = IdleSub
  /\ wpc = [w \in Workers |-> "idle"]
  /\ wjob = [w \in Workers |-> 0]
  /\ faults = 0
  /\ convOutcome = [j \in JobIds |-> "none"]
  /\ killed = [j \in JobIds |-> FALSE]

Next ==
  \/ AddConstruct
  \/ Synth
  \/ \E t \in Texts, v \in Voices : Request(t, v)
  \/ Validate
  \/ WriteJob
  \/ WriteJobFails
  \/ Publish
  \/ PublishFails
  \/ Return
  \/ SubTimeout
  \/ \E w \in Workers, j \in JobIds : Deliver(w, j)
  \/ \E w \in Workers : Ack(w)
  \/ \E w \in Workers : LoadJob(w)
  \/ \E w \in Workers : LoadFails(w)
  \/ \E w \in Workers, o \in {"ok", "throw"} : Convert(w, o)
  \/ \E w \in Workers : Timeout(w)
  \/ \E w \in Workers : StoreArtifact(w)
  \/ \E w \in Workers : Finalize(w)
  \/ \E w \in Workers : Crash(w)

Spec == Init /\ [][Next]_vars

\* The steps the runtime schedules whenever they can be taken: deployment,
\* the API handler and each worker's own steps.  The subscription invokes the
\* function for an event the topic holds while a worker stays free; nothing
\* is promised for an event after a failed invocation, which the delivery
\* layer may discard.  Faults and timeouts are never forced.
DeployStep == AddConstruct \/ Synth

SubmitStep == Validate \/ WriteJob \/ Publish \/ Return

WorkerStep(w) ==
  \/ LoadJob(w)
  \/ \E o \in {"ok", "throw"} : Convert(w, o)
  \/ StoreArtifact(w)
  \/ Finalize(w)
  \/ Ack(w)

DeliverEvent(j) == \E w \in Workers : Deliver(w, j)

Fairness ==
  /\ WF_vars(DeployStep)
  /\ WF_vars(SubmitStep)
  /\ \A w \in Workers : WF_vars(WorkerStep(w))
  /\ \A j \in JobIds : WF_vars(DeliverEvent(j))

FairSpec == Spec /\ Fairness

\* ------------------------------------------------------- properties

\* C1 as claimed: for every job id, no two workers are at once past the start
\* of the processing of that job (both converting it).
C1_Original ==
  \A j \in JobIds : Cardinality({w \in Workers : Holds(w, j)}) <= 1

\* The status changes the claim names; the table's name for the status of a
\* post whose audio exists (the claim's COMPLETE) is UPDATED.
ClaimedTransitions ==
  { << "PENDING", "PROCESSING" >>, << "PROCESSING", "UPDATED" >>,
    << "PROCESSING", "FAILED" >> }

\* C2: in every step a stored job stays stored, every change of its status is
\* PENDING -> PROCESSING, PROCESSING -> UPDATED or PROCESSING -> FAILED (so it
\* never skips PROCESSING and never moves backwards), and a job that is
\* UPDATED or FAILED keeps its status.
C2_StatusTransitions ==
  [][/\ DOMAIN jobs \subseteq DOMAIN jobs'
     /\ \A j \in DOMAIN jobs :
          /\ jobs'[j].status # jobs[j].status
               => << jobs[j].status, jobs'[j].status >> \in ClaimedTransitions
          /\ jobs[j].status \in {"UPDATED", "FAILED"}
               => jobs'[j].status = jobs[j].status]_vars

\* A worker is about to make the final update of a job that a duplicate
\* delivery has already brought to UPDATED.
C2_Witness ==
  \E w \in Workers : wpc[w] = "stored" /\ Status(wjob[w]) = "UPDATED"

\* C3: in every state a stored job has a reference to its audio (the url
\* column) exactly when its status is that of a post whose audio exists
\* (UPDATED), also between the placing of the file and the final update.
C3_UrlIffUpdated ==
  \A j \in DOMAIN jobs : (jobs[j].url # NoUrl) <=> (Status(j) = "UPDATED")

\* A worker has placed the file and has not yet made the final update.
C3_Witness ==
  \E w \in Workers :
    /\ wpc[w] = "stored"
    /\ wjob[w] \in artifacts
    /\ Status(wjob[w]) = "PROCESSING"

\* What holds of the job when the id is returned, whatever the workers did.
ReturnedJobWritten ==
  /\ sub.writes = 1
  /\ sub.publishes = 1
  /\ Exists(sub.id)
  /\ jobs[sub.id].text = sub.text
  /\ jobs[sub.id].voice = sub.voice

\* C4 as claimed: when the id is returned, one write and one publish were made
\* and the id maps to a PENDING job with the submitted text and voice.
C4_Original ==
  sub.pc = "returned" => (ReturnedJobWritten /\ Status(sub.id) = "PENDING")

\* C4 amended: when the id is returned, one write and one publish were made and
\* the id maps to a job with the submitted text and voice; its status is
\* PROCESSING, or UPDATED when a worker has finished the conversion meanwhile;
\* from the write until the publish it is PROCESSING.
C4_Amended ==
  /\ sub.pc = "returned"
       => /\ ReturnedJobWritten
          /\ \/ Status(sub.id) = "PROCESSING"
             \/ Status(sub.id) = "UPDATED" /\ sub.id \in artifacts
  /\ sub.pc = "written"
       => (Exists(sub.id) /\ Status(sub.id) = "PROCESSING" /\ sub.publishes = 0)

\* The id is returned after a worker already finished the job.
C4_Witness ==
  /\ sub.pc = "returned"
  /\ Exists(sub.id)
  /\ Status(sub.id) = "UPDATED"

\* C5: a submission that failed with ValidationError or StoreUnavailable
\* published nothing, and every event on the bus names a stored job.
C5_NoOrphanEvents ==
  /\ bus \subseteq DOMAIN jobs
  /\ sub.result \in {"ValidationError", "StoreUnavailable"}
       => (sub.publishes = 0 /\ sub.writes = 0 /\ sub.id \notin bus)

\* A submission failed on the store while an earlier event is still on the bus.
C5_Witness ==
  /\ sub.result = "StoreUnavailable"
  /\ bus # {}

\* C7 as claimed: once the conversion of a job threw or timed out, the job
\* eventually is FAILED with no reference, as the Query API shows it.
C7_Original ==
  \A j \in JobIds :
    (convOutcome[j] \in {"throw", "timeout"})
      ~> ( /\ GetPost(j).found
           /\ GetPost(j).job.status = "FAILED"
           /\ GetPost(j).job.url = NoUrl )

\* C8 as claimed by the 'Empty Stack' test: the synthesized template has no
\* resources.
C8_EmptyStack ==
  template.synthesized => template.Resources = {}

\* C9 as claimed, for a job that is already complete (UPDATED): a worker that
\* receives an event for it exits at once and changes neither the job records,
\* the artifact store nor the bus, and invokes no conversion.
C9_Original ==
  [][\A w \in Workers :
       ( /\ wpc[w] = "received"
         /\ Status(wjob[w]) = "UPDATED"
         /\ wpc'[w] # wpc[w] )
       => ( /\ wpc'[w] \in {"exited", "idle"}
            /\ jobs' = jobs
            /\ artifacts' = artifacts
            /\ bus' = bus
            /\ convOutcome' = convOutcome )]_vars

\* C10 as claimed: a job whose worker died between taking it and the final
\* update is PROCESSING with no reference, and stays so whatever is redelivered.
C10_Original ==
  \A j \in DOMAIN jobs :
    killed[j] => (Status(j) = "PROCESSING" /\ jobs[j].url = NoUrl)
====
